---------------------------- MODULE Spec2Model ----------------------------
(***************************************************************************)
(* State-machine model of the NLMDQA query pipeline engine                 *)
(* (src/app/query_handler.py): CacheManager, DataMerger, the value         *)
(* formatter and the NLMDQA.process_query controller with its retry loop.  *)
(***************************************************************************)
EXTENDS Integers, Sequences, FiniteSets, TLC

VARIABLES
    cache,       \* CacheManager.cache: cache key -> cached value
    timestamps,  \* CacheManager.timestamps: cache key -> time of the store
    now,         \* the value CacheManager.time() returns
    cacheOp,     \* last call made directly on the cache component
    stored,      \* request text -> what the last cache_result call was given
                 \* and how many such calls there were
    mergeCall,   \* one activation of DataMerger.merge_results
    stores,      \* query -> answer of the stores, where their content is
                 \* held fixed; empty where they are free to change
    fnCall,      \* one activation of the placeholder substitution or of
                 \* format_value_for_query on inputs of its own
    frame,       \* caller -> activation of NLMDQA.process_query
    hist         \* caller -> history of the current request (observation only)

vars == <<cache, timestamps, now, cacheOp, stored, mergeCall, stores, fnCall,
          frame, hist>>

-----------------------------------------------------------------------------
(* Bounds of the model *)

\* the clock advances in steps of TickStep seconds
TickStep == 1800
\* the clock stops advancing once it has reached MaxNow
MaxNow == 5400
\* number of calls made on the cache component in the component specification
MaxCacheOps == 4
\* longest result set given to merge_results
MaxRows == 2
MaxStageNo == 2

-----------------------------------------------------------------------------
(* Python values *)

\* A scalar is its Python type together with the text str() gives for it.
Scalar(t, s) == [t |-> t, s |-> s]
PyInt(s) == Scalar("int", s)
PyStr(s) == Scalar("str", s)

\* str(None), which is also what str(item.get(key)) gives for an absent key
NoneText == "None"

\* A value that is either None or a list of row records.
PyNone == [isNone |-> TRUE, rows |-> <<>>]
PyList(rows) == [isNone |-> FALSE, rows |-> rows]

\* Python truthiness of such a value: None and the empty list are falsy.
Truthy(v) == ~v.isNone /\ Len(v.rows) > 0

\* dict operations on a function whose domain is the set of present keys
DictSet(d, k, v) == [x \in (DOMAIN d) \cup {k} |-> IF x = k THEN v ELSE d[x]]
DictDel(d, k) == [x \in (DOMAIN d) \ {k} |-> d[x]]
EmptyDict == [x \in {} |-> 0]

-----------------------------------------------------------------------------
(* CacheManager *)

\* self.cache_ttl
cache_ttl == 3600

\* the request texts of the model: they differ only in case
Queries == {"top movies", "Top movies"}

\* hash(query): some integer per text, injective on Queries
PyHash(q) == IF q = "top movies" THEN 7 ELSE 13

\* CacheManager._get_cache_key
GetCacheKeyFolded(q) == <<"nlmdqa:query:", PyHash("top movies")>>
GetCacheKey(q) == <<"nlmdqa:query:", PyHash(q)>>

\* the expiry test of get_cached_result
ExpiredAtOrAfter(t, ts) == t - ts >= cache_ttl
Expired(t, ts) == t - ts > cache_ttl

\* CacheManager.get_cached_result: new cache, new timestamps, returned value
GetKeepsExpired(c, ts, t, q) ==
    LET k == GetCacheKey(q) IN
    IF k \in DOMAIN c
    THEN IF Expired(t, ts[k])
         THEN [cache |-> c, timestamps |-> ts, ret |-> PyNone]
         ELSE [cache |-> c, timestamps |-> ts, ret |-> c[k]]
    ELSE [cache |-> c, timestamps |-> ts, ret |-> PyNone]
GetDropsValueOnly(c, ts, t, q) ==
    LET k == GetCacheKey(q) IN
    IF k \in DOMAIN c
    THEN IF Expired(t, ts[k])
         THEN [cache |-> DictDel(c, k), timestamps |-> ts, ret |-> PyNone]
         ELSE [cache |-> c, timestamps |-> ts, ret |-> c[k]]
    ELSE [cache |-> c, timestamps |-> ts, ret |-> PyNone]
GetCachedResult(c, ts, t, q) ==
    LET k == GetCacheKey(q) IN
    IF k \in DOMAIN c
    THEN IF Expired(t, ts[k])
         THEN [cache |-> DictDel(c, k), timestamps |-> DictDel(ts, k),
               ret |-> PyNone]
         ELSE [cache |-> c, timestamps |-> ts, ret |-> c[k]]
    ELSE [cache |-> c, timestamps |-> ts, ret |-> PyNone]

\* CacheManager.cache_result: new cache, new timestamps
CacheResultKeepsTimestamp(c, ts, t, q, r) ==
    LET k == GetCacheKey(q) IN
    [cache |-> DictSet(c, k, r),
     timestamps |-> IF k \in DOMAIN ts THEN ts ELSE DictSet(ts, k, t)]
CacheResult(c, ts, t, q, r) ==
    LET k == GetCacheKey(q) IN
    [cache |-> DictSet(c, k, r), timestamps |-> DictSet(ts, k, t)]

\* time() moves on
Tick ==
    /\ now < MaxNow
    /\ now' = now + TickStep
    /\ UNCHANGED <<cache, timestamps, cacheOp, stored, mergeCall, stores,
                   fnCall, frame, hist>>


-----------------------------------------------------------------------------
(* Row records *)

\* all row records with fields among `fields`, field f taking values in vals[f]
RowsOver(fields, vals) ==
    UNION {{r \in [S -> UNION {vals[f] : f \in S}] :
                \A f \in S : r[f] \in vals[f]} : S \in SUBSET fields}

\* all sequences of at most n elements of S
SeqsUpTo(S, n) == UNION {[1..k -> S] : k \in 0..n}

\* the rows the store adapters return in the model
RowId1 == [f \in {"id"} |-> PyInt("1")]
RowId2 == [f \in {"id"} |-> PyInt("2")]
RowNoId == [f \in {"title"} |-> PyStr("Up")]

\* the values given to cache_result in the component specification
CacheValues ==
    {PyNone, PyList(<<>>), PyList(<<RowId1>>), PyList(<<RowId1, RowId2>>)}

-----------------------------------------------------------------------------
(* The cache component on its own: calls of get_cached_result and           *)
(* cache_result, one at a time, while the clock advances.                   *)

NoCacheOp == [n |-> 0, op |-> "none", q |-> "", ret |-> PyNone, at |-> 0]

CacheGet(q) ==
    /\ cacheOp.n < MaxCacheOps
    /\ LET g == GetCachedResult(cache, timestamps, now, q) IN
       /\ cache' = g.cache
       /\ timestamps' = g.timestamps
       /\ cacheOp' = [n |-> cacheOp.n + 1, op |-> "get", q |-> q,
                      ret |-> g.ret, at |-> now]
    /\ UNCHANGED <<now, stored, mergeCall, stores, fnCall, frame, hist>>

CachePut(q, r) ==
    /\ cacheOp.n < MaxCacheOps
    /\ LET s == CacheResult(cache, timestamps, now, q, r) IN
       /\ cache' = s.cache
       /\ timestamps' = s.timestamps
    /\ cacheOp' = [n |-> cacheOp.n + 1, op |-> "put", q |-> q,
                   ret |-> PyNone, at |-> now]
    /\ stored' = DictSet(stored, q,
                         [r |-> r, at |-> now,
                          puts |-> IF q \in DOMAIN stored
                                   THEN stored[q].puts + 1 ELSE 1])
    /\ UNCHANGED <<now, mergeCall, stores, fnCall, frame, hist>>

-----------------------------------------------------------------------------
(* DataMerger *)

MergeFields == {"id", "x"}
MergeVals == [f \in MergeFields |->
                 IF f = "id" THEN {PyInt("1"), PyInt("2")}
                             ELSE {PyStr("a"), PyStr("b")}]
MergeRows == RowsOver(MergeFields, MergeVals)
\* the merge_keys lists and the names of the result sets of the model
MergeKeyChoices == {<<"id">>, <<"id", "x">>}
SetNames == <<"stage_1", "stage_2">>

\* missing_keys = [key for key in merge_keys if key not in stage_results[0]]
MissingKeysNever(first, merge_keys) == {}
MissingKeys(first, merge_keys) ==
    {merge_keys[i] : i \in {j \in 1..Len(merge_keys) :
                               merge_keys[j] \notin DOMAIN first}}

\* tuple(str(item.get(key)) for key in merge_keys)
KeyTuple(item, merge_keys) ==
    [i \in 1..Len(merge_keys) |->
        IF merge_keys[i] \in DOMAIN item THEN item[merge_keys[i]].s
                                         ELSE NoneText]

\* data2_dict[key_tuple]: a later item of data2 replaces an earlier one
InData2Dict(data2, kt, merge_keys) ==
    \E j \in 1..Len(data2) : KeyTuple(data2[j], merge_keys) = kt
Data2DictFirst(data2, kt, merge_keys) ==
    LET hits == {j \in 1..Len(data2) : KeyTuple(data2[j], merge_keys) = kt}
        first == CHOOSE j \in hits : \A h \in hits : j <= h
    IN data2[first]
Data2Dict(data2, kt, merge_keys) ==
    LET hits == {j \in 1..Len(data2) : KeyTuple(data2[j], merge_keys) = kt}
        last == CHOOSE j \in hits : \A h \in hits : h <= j
    IN data2[last]

\* {**item1, **item2}
DictUnionLeftWins(item1, item2) ==
    [f \in (DOMAIN item1) \cup (DOMAIN item2) |->
        IF f \in DOMAIN item1 THEN item1[f] ELSE item2[f]]
DictUnion(item1, item2) ==
    [f \in (DOMAIN item1) \cup (DOMAIN item2) |->
        IF f \in DOMAIN item2 THEN item2[f] ELSE item1[f]]

\* DataMerger._merge_two_datasets, from item i of data1 on
RECURSIVE MergeTwoFrom(_, _, _, _)
MergeTwoFrom(data1, data2, merge_keys, i) ==
    IF i > Len(data1) THEN <<>>
    ELSE LET kt == KeyTuple(data1[i], merge_keys)
             rest == MergeTwoFrom(data1, data2, merge_keys, i + 1)
         IN IF InData2Dict(data2, kt, merge_keys)
            THEN <<DictUnion(data1[i], Data2Dict(data2, kt, merge_keys))>>
                     \o rest
            ELSE rest
MergeTwoReversed(data1, data2, merge_keys) ==
    LET merged == MergeTwoFrom(data1, data2, merge_keys, 1)
    IN [i \in 1..Len(merged) |-> merged[Len(merged) - i + 1]]
MergeTwoDatasets(data1, data2, merge_keys) ==
    MergeTwoFrom(data1, data2, merge_keys, 1)

\* the loop over list(results.keys())[1:]
RECURSIVE MergeFold(_, _, _, _)
MergeFold(results, merged_data, merge_keys, i) ==
    IF i > Len(results) THEN merged_data
    ELSE MergeFold(results,
                   MergeTwoDatasets(merged_data, results[i], merge_keys),
                   merge_keys, i + 1)

\* DataMerger.merge_results; results is the dict's values in insertion order
MergeResults(results, merge_keys) ==
    IF Len(results) = 0 THEN <<>>
    ELSE IF \E i \in 1..Len(results) :
                /\ Len(results[i]) > 0
                /\ MissingKeys(results[i][1], merge_keys) # {}
         THEN <<>>
         ELSE MergeFold(results, results[1], merge_keys, 2)

\* two result sets with a field of their own each and a key value on one
\* side only
JoinExample ==
    <<<<[f \in {"id", "x"} |-> IF f = "id" THEN PyInt("1") ELSE PyStr("a")],
        [f \in {"id", "x"} |-> IF f = "id" THEN PyInt("2") ELSE PyStr("b")]>>,
      <<[f \in {"id", "y"} |-> IF f = "id" THEN PyInt("2") ELSE PyStr("c")],
        [f \in {"id", "y"} |-> IF f = "id" THEN PyInt("3") ELSE PyStr("d")]>>>>

\* three result sets of two records each, every record with all fields
FullRows == {r \in MergeRows : DOMAIN r = MergeFields}
ThreeSets ==
    {<<<<a1, a2>>, <<b1, b2>>, <<c1, c2>>>> :
        a1 \in FullRows, a2 \in FullRows, b1 \in FullRows, b2 \in FullRows,
        c1 \in FullRows, c2 \in FullRows}

NoMergeCall ==
    [pc |-> "idle", results |-> <<>>, merge_keys |-> <<>>, out |-> <<>>]

\* merge_results runs to its return statement
MergeReturn ==
    /\ mergeCall.pc = "called"
    /\ mergeCall' = [mergeCall EXCEPT
                       !.pc = "returned",
                       !.out = MergeResults(mergeCall.results,
                                            mergeCall.merge_keys)]
    /\ UNCHANGED <<cache, timestamps, now, cacheOp, stored, stores, fnCall,
                   frame, hist>>

-----------------------------------------------------------------------------
(* Query text.  A text is a sequence of tokens, each token a fixed piece of *)
(* the text; str.replace and the `in` test work on runs of tokens.          *)

\* whether pat occurs in text at position i
MatchAt(text, pat, i) ==
    /\ i + Len(pat) - 1 <= Len(text)
    /\ \A j \in 1..Len(pat) : text[i + j - 1] = pat[j]

\* pat in text
Contains(text, pat) == \E i \in 1..Len(text) : MatchAt(text, pat, i)

\* text.replace(pat, rep), scanning from position i (pat is not empty)
RECURSIVE ReplaceFrom(_, _, _, _)
ReplaceFrom(text, pat, rep, i) ==
    IF i > Len(text) THEN <<>>
    ELSE IF MatchAt(text, pat, i)
         THEN rep \o ReplaceFrom(text, pat, rep, i + Len(pat))
         ELSE <<text[i]>> \o ReplaceFrom(text, pat, rep, i + 1)
RECURSIVE ReplaceFirstFrom(_, _, _, _)
ReplaceFirstFrom(text, pat, rep, i) ==
    IF i > Len(text) THEN <<>>
    ELSE IF MatchAt(text, pat, i)
         THEN rep \o SubSeq(text, i + Len(pat), Len(text))
         ELSE <<text[i]>> \o ReplaceFirstFrom(text, pat, rep, i + 1)
ReplaceFirst(text, pat, rep) == ReplaceFirstFrom(text, pat, rep, 1)
Replace(text, pat, rep) == ReplaceFrom(text, pat, rep, 1)

\* ', '.join(parts), from part i on
RECURSIVE JoinFrom(_, _)
JoinFrom(parts, i) ==
    IF i > Len(parts) THEN <<>>
    ELSE IF i = Len(parts) THEN parts[i]
         ELSE parts[i] \o <<", ">> \o JoinFrom(parts, i + 1)
JoinCommaReversed(parts) ==
    JoinFrom([i \in 1..Len(parts) |-> parts[Len(parts) - i + 1]], 1)
JoinComma(parts) == JoinFrom(parts, 1)

\* f"{{previous_stage{prev_stage}.{key}}}"
Placeholder(prev_stage, key) ==
    <<"{previous_stage", ToString(prev_stage), ".", key, "}">>

\* the same placeholder as the text of a string value
PlaceholderString(prev_stage, key) ==
    "{previous_stage" \o ToString(prev_stage) \o "." \o key \o "}"

\* the keys and stage numbers of the placeholders a value's text may spell
PlaceholderKeys == {"id", "title"}

\* the text of a value as it stands in a query: the tokens of a placeholder
\* when the text spells one, a single token otherwise
Tokens(s) ==
    LET spelt == {p \in (1..MaxStageNo) \X PlaceholderKeys :
                     s = PlaceholderString(p[1], p[2])}
        p == CHOOSE p \in spelt : TRUE
    IN IF spelt = {} THEN <<s>> ELSE Placeholder(p[1], p[2])

-----------------------------------------------------------------------------
(* NLMDQA.format_value_for_query *)

\* isinstance(v, (int, float, decimal.Decimal)); bool is a subclass of int
IsNumber(v) == v.t \in {"int", "float", "decimal", "bool"}

\* str(v) for a number, f"'{v}'" for anything else
FormatElement(v) ==
    IF IsNumber(v) THEN Tokens(v.s) ELSE <<"'">> \o Tokens(v.s) \o <<"'">>

\* the list branch: value is a list of scalars
FormatValueForQuery(value, database_type) ==
    LET formatted_values == [i \in 1..Len(value) |-> FormatElement(value[i])]
    IN IF database_type = "neo4j"
       THEN <<"[">> \o JoinComma(formatted_values) \o <<"]">>
       ELSE JoinComma(formatted_values)

\* the scalar branch: value is not a list
FormatScalarForQuery(value, database_type) ==
    IF IsNumber(value) THEN Tokens(value.s)
    ELSE <<"'">> \o Tokens(value.s) \o <<"'">>

\* format_value_for_query called on inputs of its own
NoFnCall == [pc |-> "idle"]

FormatReturn ==
    /\ fnCall.pc = "called"
    /\ fnCall.fn = "format_value_for_query"
    /\ fnCall' = [fnCall EXCEPT
                    !.pc = "returned",
                    !.out = IF fnCall.isList
                            THEN FormatValueForQuery(fnCall.list,
                                                     fnCall.database_type)
                            ELSE FormatScalarForQuery(fnCall.scalar,
                                                      fnCall.database_type)]
    /\ UNCHANGED <<cache, timestamps, now, cacheOp, stored, mergeCall, stores,
                   frame, hist>>

-----------------------------------------------------------------------------
(* Query plans as the planner returns them *)

\* stage['query'][database] is a str or a dict
TextQuery(text) == [kind |-> "str", text |-> text, collection |-> ""]
DictQuery(collection, text) ==
    [kind |-> "dict", text |-> text, collection |-> collection]

StageOf(n, database, query, output_keys) ==
    [stage |-> n, database |-> database, query |-> query,
     output_keys |-> output_keys]

SelectAll == TextQuery(<<"SELECT m.id FROM movies m">>)
MatchAll == TextQuery(<<"MATCH (m:Movie) RETURN m.id AS id">>)
SelectIn ==
    TextQuery(<<"SELECT m.id FROM movies m WHERE m.id ", "IN (">>
              \o Placeholder(1, "id") \o <<")">>)
\* WHERE m.id IN {previous_stage1.id} AND m.gross > 100000000
SelectInExample ==
    TextQuery(<<"SELECT m.id FROM movies m WHERE m.id ", "IN ">>
              \o Placeholder(1, "id") \o <<" AND m.gross > 100000000">>)
\* WHERE x.id IN [{previous_stage1.ids}], in two clauses
MatchIn ==
    TextQuery(<<"MATCH (x:Movie) WHERE x.id ", "IN [">>
              \o Placeholder(1, "id") \o <<"]", " OR x.sequel ", "IN [">>
              \o Placeholder(1, "id") \o <<"]", " RETURN x.id AS id">>)
\* placeholders of a key stage 1 does not declare and of a stage the plan
\* does not have, next to one the table resolves
MatchUnresolved ==
    TextQuery(<<"MATCH (x:Movie) WHERE x.id ", "IN ">>
              \o Placeholder(1, "id") \o <<" AND x.title ", "IN ">>
              \o Placeholder(1, "title") \o <<" AND x.sequel ", "IN ">>
              \o Placeholder(3, "id") \o <<" RETURN x.id AS id">>)
FindAll == DictQuery("movies", <<"{}">>)
FindIn ==
    DictQuery("movies", <<"{\"id\": {\"$in\": [">>
                        \o Placeholder(1, "id") \o <<"]}}">>)

PlanEmpty == <<>>
PlanSingle == <<StageOf(1, "postgresql", SelectAll, <<"id">>)>>
PlanTwo == <<StageOf(1, "neo4j", MatchAll, <<"id">>),
             StageOf(2, "postgresql", SelectIn, <<"id">>)>>
PlanMongo == <<StageOf(1, "postgresql", SelectAll, <<"id">>),
               StageOf(2, "mongodb", FindIn, <<"id">>)>>
PlanOtherStore == <<StageOf(1, "neo4j", MatchAll, <<"id">>),
                    StageOf(2, "mysql", SelectIn, <<"id">>)>>
PlanUnordered == <<StageOf(2, "postgresql", SelectAll, <<"id">>),
                   StageOf(1, "neo4j", MatchAll, <<"id">>)>>
PlanExample == <<StageOf(1, "neo4j", MatchAll, <<"id">>),
                 StageOf(2, "postgresql", SelectInExample, <<"id">>)>>
PlanGraphSecond == <<StageOf(1, "postgresql", SelectAll, <<"id">>),
                     StageOf(2, "neo4j", MatchIn, <<"id">>)>>
PlanUnresolved == <<StageOf(1, "postgresql", SelectAll, <<"id">>),
                    StageOf(2, "neo4j", MatchUnresolved, <<"id">>)>>
PlanDocument == <<StageOf(1, "mongodb", FindAll, <<"id">>)>>

\* the plans the planner returns in the model
Plans == {PlanEmpty, PlanSingle, PlanTwo, PlanMongo, PlanOtherStore,
          PlanUnordered, PlanExample, PlanGraphSecond, PlanUnresolved,
          PlanDocument}

-----------------------------------------------------------------------------
(* NLMDQA.process_query: the data it works on *)

MAX_RETRIES == 3

\* str(e) of the exceptions of the model
ErrParse == "Failed to parse natural language query: no completion"
ErrStore == "store rejected the query"
ErrKey(key) == "'" \o key \o "'"
ErrUnbound == "local variable 'results' referenced before assignment"
ErrDictReplace == "'dict' object has no attribute 'replace'"
ErrStrIndex == "string indices must be integers"
ErrNotText == "argument 1 must be a string"

\* what the caller of process_query gets
NoOutcome ==
    [kind |-> "pending", value |-> PyNone, text |-> "", attempts |-> 0,
     last |-> ""]
Returned(v) == [NoOutcome EXCEPT !.kind = "value", !.value = v]
ReturnedText(t) == [NoOutcome EXCEPT !.kind = "text", !.text = t]
\* RuntimeError(f"Failed to process query after {MAX_RETRIES} attempts.
\*                Last error: {error_message}")
TerminalFailure(error_message) ==
    [NoOutcome EXCEPT !.kind = "error", !.attempts = MAX_RETRIES,
                      !.last = error_message]

SummaryText == "summary of the rows"
FallbackText ==
    "Sorry, I couldn't generate a human-readable response for these results."

\* the error_feedback text built in the except block
Feedback(error_message) ==
    <<"Previous attempt failed with error: ", error_message>>

\* what a store answers to a query
StoreRows(rows) == [ok |-> TRUE, rows |-> rows, err |-> ""]
StoreError(err) == [ok |-> FALSE, rows |-> <<>>, err |-> err]
StoreAnswers ==
    {StoreRows(<<>>), StoreRows(<<RowId1, RowId2>>),
     StoreRows(<<RowId1, RowNoId>>), StoreError(ErrStore)}

IdleFrame ==
    [pc |-> "idle", natural_language_query |-> "", human_readable |-> FALSE,
     retry_count |-> 0, error_feedback |-> <<>>, pipeline |-> <<>>,
     idx |-> 1, query |-> TextQuery(<<>>), results_bound |-> FALSE,
     results |-> <<>>, stage_results |-> <<>>,
     test_final_results |-> PyNone, ret |-> NoOutcome]

\* a fresh activation of process_query, at its cache check
Activation(q, human_readable, retry_count, error_feedback) ==
    [IdleFrame EXCEPT !.pc = "lookup", !.natural_language_query = q,
                      !.human_readable = human_readable,
                      !.retry_count = retry_count,
                      !.error_feedback = error_feedback]

NoHist ==
    [planner_calls |-> 0, planner_feedback |-> <<>>, events |-> <<>>,
     store_calls |-> <<>>, adapter_rows |-> <<>>, rows |-> <<>>,
     unreleased |-> 0, last_error |-> "", failed |-> 0,
     live_at_call |-> FALSE, cache_at_call |-> <<>>,
     timestamps_at_call |-> <<>>]

Event(e, n) == [e |-> e, stage |-> n]

\* if retry_count < MAX_RETRIES
RetryAllowedOnceMore(retry_count) == retry_count <= MAX_RETRIES
RetryAllowed(retry_count) == retry_count < MAX_RETRIES

\* the except block of process_query, entered with str(e) = error_message
HandledRetriesStage(f, error_message) ==
    IF RetryAllowed(f.retry_count)
    THEN IF f.pc = "stage"
         THEN [f EXCEPT !.retry_count = @ + 1]
         ELSE Activation(f.natural_language_query, f.human_readable,
                         f.retry_count + 1, Feedback(error_message))
    ELSE [f EXCEPT !.pc = "raised", !.ret = TerminalFailure(error_message)]
HandledFirstFeedback(f, error_message) ==
    IF RetryAllowed(f.retry_count)
    THEN Activation(f.natural_language_query, f.human_readable,
                    f.retry_count + 1,
                    IF f.error_feedback = <<>> THEN Feedback(error_message)
                                               ELSE f.error_feedback)
    ELSE [f EXCEPT !.pc = "raised", !.ret = TerminalFailure(error_message)]
HandledSameCount(f, error_message) ==
    IF RetryAllowed(f.retry_count)
    THEN Activation(f.natural_language_query, f.human_readable,
                    f.retry_count, Feedback(error_message))
    ELSE [f EXCEPT !.pc = "raised", !.ret = TerminalFailure(error_message)]
HandledKeepsTable(f, error_message) ==
    IF RetryAllowed(f.retry_count)
    THEN [Activation(f.natural_language_query, f.human_readable,
                     f.retry_count + 1, Feedback(error_message))
             EXCEPT !.stage_results = f.stage_results]
    ELSE [f EXCEPT !.pc = "raised", !.ret = TerminalFailure(error_message)]
Handled(f, error_message) ==
    IF RetryAllowed(f.retry_count)
    THEN Activation(f.natural_language_query, f.human_readable,
                    f.retry_count + 1, Feedback(error_message))
    ELSE [f EXCEPT !.pc = "raised", !.ret = TerminalFailure(error_message)]

\* an attempt of caller c ends in the except block
Raise(c, error_message, h) ==
    /\ frame' = [frame EXCEPT ![c] = Handled(frame[c], error_message)]
    /\ hist' = [hist EXCEPT ![c] =
                  [h EXCEPT !.last_error = error_message,
                            !.failed = h.failed + 1,
                            !.events = IF RetryAllowed(frame[c].retry_count)
                                       THEN <<>> ELSE h.events,
                            !.store_calls =
                                IF RetryAllowed(frame[c].retry_count)
                                THEN <<>> ELSE h.store_calls,
                            !.adapter_rows =
                                IF RetryAllowed(frame[c].retry_count)
                                THEN <<>> ELSE h.adapter_rows,
                            !.rows = IF RetryAllowed(frame[c].retry_count)
                                     THEN <<>> ELSE h.rows]]

\* the connections an adapter call for database leaves open at its exit.
\* execute_postgres_query and execute_neo4j_query hold theirs in a with
\* statement, whose exit is the release on both exit paths;
\* execute_mongo_query gets a database handle of a MongoClient made inside
\* get_mongo_connection, keeps no reference to the client and has no
\* statement closing it
LeftOpen(database) == IF database = "mongodb" THEN 1 ELSE 0

\* for stage in pipeline_result['pipeline']: the stage of iteration idx
StageBackwards(pipeline, idx) == pipeline[Len(pipeline) - idx + 1]
CurrentStage(pipeline, idx) == pipeline[idx]

-----------------------------------------------------------------------------
(* The Stage Result Table: stage_results, a dict in insertion order *)

\* [r[key] for r in results]; every row has the key
Column(results, key) == [i \in 1..Len(results) |-> results[i][key]]

\* {key: [r[key] for r in results] for key in stage['output_keys']}
RECURSIVE OutputsFrom(_, _, _)
OutputsFrom(results, output_keys, i) ==
    IF i > Len(output_keys) THEN <<>>
    ELSE IF \E j \in 1..(i - 1) : output_keys[j] = output_keys[i]
         THEN OutputsFrom(results, output_keys, i + 1)
         ELSE <<[key |-> output_keys[i],
                 value |-> Column(results, output_keys[i])]>>
                  \o OutputsFrom(results, output_keys, i + 1)
Outputs(results, output_keys) == OutputsFrom(results, output_keys, 1)

\* stage_results[stage_num] = outputs
AssignStage(stage_results, stage_num, outputs) ==
    IF \E i \in 1..Len(stage_results) : stage_results[i].stage = stage_num
    THEN [i \in 1..Len(stage_results) |->
             IF stage_results[i].stage = stage_num
             THEN [stage |-> stage_num, outputs |-> outputs]
             ELSE stage_results[i]]
    ELSE Append(stage_results, [stage |-> stage_num, outputs |-> outputs])

\* the keys of declared output_keys some row of results lacks, by position
MissingOutput(results, output_keys) ==
    {i \in 1..Len(output_keys) :
        \E r \in 1..Len(results) : output_keys[i] \notin DOMAIN results[r]}

\* whether the two nested substitution loops run their body at least once
HasOutputs(stage_results) ==
    \E i \in 1..Len(stage_results) : Len(stage_results[i].outputs) > 0

\* the inner loop: for key, value in prev_results.items()
RECURSIVE SubstituteKeys(_, _, _, _, _)
SubstituteKeys(text, prev_stage, outputs, database, j) ==
    IF j > Len(outputs) THEN text
    ELSE SubstituteKeys(
             Replace(text, Placeholder(prev_stage, outputs[j].key),
                     FormatValueForQuery(outputs[j].value, database)),
             prev_stage, outputs, database, j + 1)

\* the outer loop: for prev_stage, prev_results in stage_results.items()
RECURSIVE SubstituteStages(_, _, _, _)
SubstituteStages(text, stage_results, database, i) ==
    IF i > Len(stage_results) THEN text
    ELSE SubstituteStages(
             SubstituteKeys(text, stage_results[i].stage,
                            stage_results[i].outputs, database, 1),
             stage_results, database, i + 1)

RECURSIVE StripPlaceholdersFrom(_, _)
StripPlaceholdersFrom(text, i) ==
    IF i > Len(text) THEN <<>>
    ELSE IF /\ text[i] = "{previous_stage"
            /\ i + 4 <= Len(text)
            /\ text[i + 4] = "}"
         THEN StripPlaceholdersFrom(text, i + 5)
         ELSE <<text[i]>> \o StripPlaceholdersFrom(text, i + 1)
SubstituteAndStrip(text, stage_results, database) ==
    StripPlaceholdersFrom(SubstituteStages(text, stage_results, database, 1),
                          1)
Substitute(text, stage_results, database) ==
    SubstituteStages(text, stage_results, database, 1)

\* "IN ()" in query or "IN ( )" in query
EmptyMembership(text) ==
    \/ Contains(text, <<"IN (", ")">>)
    \/ Contains(text, <<"IN (", " ", ")">>)

\* the substitution loops run on a text and a table of their own, and on
\* the same table with its entries inserted in the opposite order
SubstituteReturn ==
    /\ fnCall.pc = "called"
    /\ fnCall.fn = "substitute"
    /\ fnCall' = [fnCall EXCEPT
                    !.pc = "returned",
                    !.out = Substitute(fnCall.text, fnCall.stage_results,
                                       fnCall.database),
                    !.out_reversed =
                        Substitute(fnCall.text, fnCall.reversed,
                                   fnCall.database)]
    /\ UNCHANGED <<cache, timestamps, now, cacheOp, stored, mergeCall, stores,
                   frame, hist>>

\* stage_results with the two entries inserted in the order given
TableOf(stage1, key1, value1, stage2, key2, value2) ==
    IF stage1 = stage2
    THEN <<[stage |-> stage1,
            outputs |-> <<[key |-> key1, value |-> value1],
                          [key |-> key2, value |-> value2]>>]>>
    ELSE <<[stage |-> stage1,
            outputs |-> <<[key |-> key1, value |-> value1]>>],
           [stage |-> stage2,
            outputs |-> <<[key |-> key2, value |-> value2]>>]>>

-----------------------------------------------------------------------------
(* NLMDQA.process_query: its steps, for caller c *)

CacheVars == <<cache, timestamps>>
Others == <<cacheOp, stored, mergeCall, stores, fnCall>>

\* a caller calls process_query(q, human_readable)
Call(c, q, human_readable) ==
    /\ frame[c].pc = "idle"
    /\ frame' = [frame EXCEPT ![c] = Activation(q, human_readable, 0, <<>>)]
    /\ hist' = [hist EXCEPT ![c] =
                  [NoHist EXCEPT !.cache_at_call = cache,
                                 !.timestamps_at_call = timestamps]]
    /\ UNCHANGED <<CacheVars, now, Others>>

\* whether the cache holds rows for q whose age has not exceeded the ttl
LiveRows(q) ==
    LET k == GetCacheKey(q) IN
    /\ k \in DOMAIN cache
    /\ now - timestamps[k] <= cache_ttl
    /\ ~cache[k].isNone

\* cached_result = get_cached_result(...); if cached_result: return it
CacheCheck(c) ==
    /\ frame[c].pc = "lookup"
    /\ LET f == frame[c]
           g == GetCachedResult(cache, timestamps, now,
                                f.natural_language_query)
       IN /\ cache' = g.cache
          /\ timestamps' = g.timestamps
          /\ frame' = [frame EXCEPT ![c] =
                         IF Truthy(g.ret)
                         THEN [f EXCEPT !.pc = "returned",
                                        !.ret = Returned(g.ret)]
                         ELSE [f EXCEPT !.pc = "parse"]]
          /\ hist' = [hist EXCEPT ![c].live_at_call =
                         IF f.retry_count = 0
                         THEN LiveRows(f.natural_language_query)
                         ELSE @]
    /\ UNCHANGED <<now, Others>>

\* parse_query returns a plan
ParseOk(c, plan) ==
    /\ frame[c].pc = "parse"
    /\ frame' = [frame EXCEPT ![c] =
                   [@ EXCEPT !.pipeline = plan, !.idx = 1,
                             !.pc = IF Len(plan) = 0 THEN "store"
                                                     ELSE "stage"]]
    /\ hist' = [hist EXCEPT ![c] =
                  [@ EXCEPT !.planner_calls = @ + 1,
                            !.planner_feedback = frame[c].error_feedback]]
    /\ UNCHANGED <<CacheVars, now, Others>>

\* parse_query raises
ParseFail(c) ==
    /\ frame[c].pc = "parse"
    /\ Raise(c, ErrParse,
             [hist[c] EXCEPT !.planner_calls = @ + 1,
                             !.planner_feedback = frame[c].error_feedback])
    /\ UNCHANGED <<CacheVars, now, Others>>

\* the query of the current stage after the placeholder substitution
StageQuery(f) ==
    LET stage == CurrentStage(f.pipeline, f.idx)
    IN IF stage.query.kind = "str"
       THEN TextQuery(Substitute(stage.query.text, f.stage_results,
                                 stage.database))
       ELSE stage.query

\* one iteration of the stage loop up to the adapter's return: the
\* substitution and the dispatch on the stage's database
ExecStage(c, answer) ==
    /\ frame[c].pc = "stage"
    /\ LET f == frame[c]
           stage == CurrentStage(f.pipeline, f.idx)
           database == stage.database
           raw == stage.query
           replaceFails == raw.kind = "dict" /\ HasOutputs(f.stage_results)
           query == StageQuery(f)
           known == database \in {"postgresql", "mongodb", "neo4j"}
           guarded == /\ database = "postgresql"
                      /\ query.kind = "str"
                      /\ EmptyMembership(query.text)
           typeError ==
               IF database \in {"postgresql", "neo4j"} /\ query.kind # "str"
               THEN ErrNotText
               ELSE IF database = "mongodb" /\ query.kind # "dict"
                    THEN ErrStrIndex
                    ELSE ""
           h == [hist[c] EXCEPT
                    !.events =
                        IF known /\ ~replaceFails
                        THEN Append(@, Event("invoke", stage.stage)) ELSE @,
                    !.unreleased =
                        IF known /\ ~replaceFails
                        THEN @ + LeftOpen(database) ELSE @]
           \* the query reaches the store: cur.execute, find, session.run
           sent == [h EXCEPT !.store_calls =
                       Append(@, [stage |-> stage.stage, query |-> query])]
           done(rows, g) ==
               /\ frame' = [frame EXCEPT ![c] =
                              [f EXCEPT !.pc = "record", !.query = query,
                                        !.results_bound = TRUE,
                                        !.results = rows]]
               /\ hist' = [hist EXCEPT ![c] =
                             [g EXCEPT !.adapter_rows =
                                 Append(@, [idx |-> f.idx,
                                            database |-> database,
                                            query |-> query,
                                            rows |-> rows])]]
       IN IF replaceFails THEN Raise(c, ErrDictReplace, h)
          ELSE IF ~known
               THEN /\ frame' = [frame EXCEPT ![c] =
                                   [f EXCEPT !.pc = "record",
                                             !.query = query]]
                    /\ hist' = [hist EXCEPT ![c] = h]
          ELSE IF guarded THEN done(<<>>, h)
          ELSE IF typeError # "" THEN Raise(c, typeError, h)
          ELSE IF answer.ok THEN done(answer.rows, sent)
          ELSE Raise(c, answer.err, sent)
    /\ UNCHANGED <<CacheVars, now, Others>>

\* the rest of the iteration: stage_results[stage_num] = ...,
\* final_results[...] = results, test_final_results = results
RecordStage(c) ==
    /\ frame[c].pc = "record"
    /\ LET f == frame[c]
           stage == CurrentStage(f.pipeline, f.idx)
           missing == MissingOutput(f.results, stage.output_keys)
           first == CHOOSE i \in missing : \A j \in missing : i <= j
       IN IF ~f.results_bound THEN Raise(c, ErrUnbound, hist[c])
          ELSE IF missing # {}
               THEN Raise(c, ErrKey(stage.output_keys[first]), hist[c])
          ELSE /\ frame' = [frame EXCEPT ![c] =
                   [f EXCEPT
                      !.stage_results =
                          AssignStage(@, stage.stage,
                                      Outputs(f.results, stage.output_keys)),
                      !.test_final_results = PyList(f.results),
                      !.idx = @ + 1,
                      !.pc = IF f.idx = Len(f.pipeline) THEN "store"
                                                        ELSE "stage"]]
               /\ hist' = [hist EXCEPT ![c] =
                             [@ EXCEPT
                                !.events =
                                    Append(@, Event("record", stage.stage)),
                                !.rows = Append(@, [stage |-> stage.stage,
                                                    rows |-> f.results])]]
    /\ UNCHANGED <<CacheVars, now, Others>>

\* cache_result(...), then the return of the rows unless human_readable
StoreResult(c) ==
    /\ frame[c].pc = "store"
    /\ LET f == frame[c]
           s == CacheResult(cache, timestamps, now,
                            f.natural_language_query, f.test_final_results)
       IN /\ cache' = s.cache
          /\ timestamps' = s.timestamps
          /\ frame' = [frame EXCEPT ![c] =
                         IF f.human_readable
                         THEN [f EXCEPT !.pc = "summarize"]
                         ELSE [f EXCEPT !.pc = "returned",
                                  !.ret = Returned(f.test_final_results)]]
    /\ UNCHANGED <<now, Others, hist>>

\* generate_human_response returns the summary, or the fallback text when
\* the completion fails
SummarizeRaises(c, ok) ==
    /\ frame[c].pc = "summarize"
    /\ IF ok
       THEN /\ frame' = [frame EXCEPT ![c] =
                           [@ EXCEPT !.pc = "returned",
                                     !.ret = ReturnedText(SummaryText)]]
            /\ UNCHANGED hist
       ELSE Raise(c, FallbackText, hist[c])
    /\ UNCHANGED <<CacheVars, now, Others>>
Summarize(c, ok) ==
    /\ frame[c].pc = "summarize"
    /\ frame' = [frame EXCEPT ![c] =
                   [@ EXCEPT !.pc = "returned",
                             !.ret = ReturnedText(IF ok THEN SummaryText
                                                        ELSE FallbackText)]]
    /\ UNCHANGED <<CacheVars, now, Others, hist>>

\* the caller takes the outcome; it may call again
Finish(c) ==
    /\ frame[c].pc \in {"returned", "raised"}
    /\ frame' = [frame EXCEPT ![c] = IdleFrame]
    /\ UNCHANGED <<CacheVars, now, Others, hist>>

-----------------------------------------------------------------------------
(* Specifications *)

\* the request text the callers of process_query send
CallTexts == {"top movies"}

InitWith(callers) ==
    /\ cache = EmptyDict
    /\ timestamps = EmptyDict
    /\ now = 0
    /\ cacheOp = NoCacheOp
    /\ stored = EmptyDict
    /\ mergeCall = NoMergeCall
    /\ stores = EmptyDict
    /\ fnCall = NoFnCall
    /\ frame = [c \in callers |-> IdleFrame]
    /\ hist = [c \in callers |-> NoHist]

\* one caller, one request after the other
Init == InitWith({"c1"})

Next ==
    \/ Tick
    \/ \E c \in DOMAIN frame, q \in CallTexts, hr \in BOOLEAN : Call(c, q, hr)
    \/ \E c \in DOMAIN frame : CacheCheck(c)
    \/ \E c \in DOMAIN frame, plan \in Plans : ParseOk(c, plan)
    \/ \E c \in DOMAIN frame : ParseFail(c)
    \/ \E c \in DOMAIN frame, answer \in StoreAnswers : ExecStage(c, answer)
    \/ \E c \in DOMAIN frame : RecordStage(c)
    \/ \E c \in DOMAIN frame : StoreResult(c)
    \/ \E c \in DOMAIN frame, ok \in BOOLEAN : Summarize(c, ok)
    \/ \E c \in DOMAIN frame : Finish(c)

Spec == Init /\ [][Next]_vars

\* the same program under the assumption that every awaited call returns:
\* a step of a request in progress (the cache lookup, the planner's answer,
\* a store's answer, the recording, the store into the cache, the
\* summarization's answer) is eventually taken. Nothing obliges a caller to
\* make a request or the clock to advance.
ReturnPlans == {PlanSingle, PlanTwo}
RequestStep(c) ==
    \/ CacheCheck(c)
    \/ \E plan \in ReturnPlans : ParseOk(c, plan)
    \/ ParseFail(c)
    \/ \E answer \in StoreAnswers : ExecStage(c, answer)
    \/ RecordStage(c)
    \/ StoreResult(c)
    \/ \E ok \in BOOLEAN : Summarize(c, ok)
NextReturns ==
    \/ Tick
    \/ \E q \in CallTexts, hr \in BOOLEAN : Call("c1", q, hr)
    \/ RequestStep("c1")
    \/ Finish("c1")
SpecReturns ==
    Init /\ [][NextReturns]_vars /\ WF_vars(RequestStep("c1"))

\* two callers at once; the planner answers with a one-stage plan and the
\* store answers with rows
InitConcurrent == InitWith({"c1", "c2"})

NextConcurrent ==
    \/ \E c \in DOMAIN frame, q \in CallTexts : Call(c, q, FALSE)
    \/ \E c \in DOMAIN frame : CacheCheck(c)
    \/ \E c \in DOMAIN frame : ParseOk(c, PlanSingle)
    \/ \E c \in DOMAIN frame : ParseFail(c)
    \/ \E c \in DOMAIN frame,
          answer \in {StoreRows(<<RowId1>>), StoreRows(<<RowId1, RowId2>>)} :
          ExecStage(c, answer)
    \/ \E c \in DOMAIN frame : RecordStage(c)
    \/ \E c \in DOMAIN frame : StoreResult(c)
    \/ \E c \in DOMAIN frame : Finish(c)

SpecConcurrent == InitConcurrent /\ [][NextConcurrent]_vars

\* two callers at once against stores whose content does not change: a
\* query is answered alike whenever it is sent
RunAnswers == {StoreRows(<<>>), StoreRows(<<RowId1, RowId2>>),
               StoreError(ErrStore)}
Sent(database, query) == [database |-> database, query |-> query]
RunQueries ==
    {Sent("neo4j", MatchAll), Sent("postgresql", SelectAll),
     Sent("postgresql",
          TextQuery(Substitute(SelectIn.text,
                               <<[stage |-> 1,
                                  outputs |-> Outputs(<<RowId1, RowId2>>,
                                                      <<"id">>)]>>,
                               "postgresql")))}
StoreAnswer(f) ==
    LET sent == Sent(CurrentStage(f.pipeline, f.idx).database, StageQuery(f))
    IN IF sent \in DOMAIN stores THEN stores[sent] ELSE StoreError(ErrStore)

InitRuns ==
    /\ cache = EmptyDict
    /\ timestamps = EmptyDict
    /\ now = 0
    /\ cacheOp = NoCacheOp
    /\ stored = EmptyDict
    /\ mergeCall = NoMergeCall
    /\ stores \in [RunQueries -> RunAnswers]
    /\ fnCall = NoFnCall
    /\ frame = [c \in {"c1", "c2"} |-> IdleFrame]
    /\ hist = [c \in {"c1", "c2"} |-> NoHist]

NextRuns ==
    \/ \E c \in DOMAIN frame, q \in CallTexts : Call(c, q, FALSE)
    \/ \E c \in DOMAIN frame : CacheCheck(c)
    \/ \E c \in DOMAIN frame, plan \in {PlanTwo, PlanUnordered} :
          ParseOk(c, plan)
    \/ \E c \in DOMAIN frame :
          /\ frame[c].pc = "stage"
          /\ ExecStage(c, StoreAnswer(frame[c]))
    \/ \E c \in DOMAIN frame : RecordStage(c)
    \/ \E c \in DOMAIN frame : StoreResult(c)
    \/ \E c \in DOMAIN frame : Finish(c)

SpecRuns == InitRuns /\ [][NextRuns]_vars

\* the substitution loops called on bounded inputs: a text, two table
\* entries whose values may spell placeholders, and a database
SubstScalars ==
    {PyInt("1"), PyStr(PlaceholderString(1, "title")),
     PyStr(PlaceholderString(MaxStageNo, "id"))}
SubstEntries == {<<1, "id">>, <<1, "title">>, <<MaxStageNo, "id">>}
SubstTexts ==
    {Placeholder(1, "id"),
     <<"WHERE a IN ">> \o Placeholder(1, "id") \o <<" AND b IN ">>
        \o Placeholder(1, "title"),
     Placeholder(MaxStageNo, "id") \o <<", ">> \o Placeholder(1, "id")}

InitSubst ==
    /\ cache = EmptyDict
    /\ timestamps = EmptyDict
    /\ now = 0
    /\ cacheOp = NoCacheOp
    /\ stored = EmptyDict
    /\ mergeCall = NoMergeCall
    /\ stores = EmptyDict
    /\ frame = [c \in {"c1"} |-> IdleFrame]
    /\ hist = [c \in {"c1"} |-> NoHist]
    /\ \E text \in SubstTexts, database \in {"postgresql", "neo4j"},
          e1, e2 \in SubstEntries,
          v1, v2 \in SeqsUpTo(SubstScalars, MaxRows) :
          /\ e1 # e2
          /\ fnCall = [pc |-> "called", fn |-> "substitute", text |-> text,
                       database |-> database,
                       stage_results |->
                           TableOf(e1[1], e1[2], v1, e2[1], e2[2], v2),
                       reversed |->
                           TableOf(e2[1], e2[2], v2, e1[1], e1[2], v1),
                       out |-> <<>>, out_reversed |-> <<>>]

NextSubst == SubstituteReturn

SpecSubst == InitSubst /\ [][NextSubst]_vars

\* format_value_for_query called on bounded inputs: a scalar of each Python
\* type a row can hold, or a list of such scalars
FormatScalars ==
    {PyInt("7"), Scalar("float", "2.5"), Scalar("decimal", "9.99"),
     Scalar("bool", "True"), Scalar("NoneType", NoneText), PyStr("Up")}
FormatDatabases == {"postgresql", "neo4j", "mongodb"}

InitFormat ==
    /\ cache = EmptyDict
    /\ timestamps = EmptyDict
    /\ now = 0
    /\ cacheOp = NoCacheOp
    /\ stored = EmptyDict
    /\ mergeCall = NoMergeCall
    /\ stores = EmptyDict
    /\ frame = [c \in {"c1"} |-> IdleFrame]
    /\ hist = [c \in {"c1"} |-> NoHist]
    /\ \E database_type \in FormatDatabases :
          \/ \E scalar \in FormatScalars :
                fnCall = [pc |-> "called", fn |-> "format_value_for_query",
                          isList |-> FALSE, scalar |-> scalar, list |-> <<>>,
                          database_type |-> database_type, out |-> <<>>]
          \/ \E list \in SeqsUpTo(FormatScalars, MaxRows) :
                fnCall = [pc |-> "called", fn |-> "format_value_for_query",
                          isList |-> TRUE, scalar |-> PyInt("0"),
                          list |-> list,
                          database_type |-> database_type, out |-> <<>>]

NextFormat == FormatReturn

SpecFormat == InitFormat /\ [][NextFormat]_vars

\* the cache component called directly
NextCache ==
    \/ Tick
    \/ \E q \in Queries : CacheGet(q)
    \/ \E q \in Queries, r \in CacheValues : CachePut(q, r)

SpecCache == InitWith({"c1"}) /\ [][NextCache]_vars

\* merge_results called on bounded inputs
InitMerge ==
    /\ cache = EmptyDict
    /\ timestamps = EmptyDict
    /\ now = 0
    /\ cacheOp = NoCacheOp
    /\ stored = EmptyDict
    /\ stores = EmptyDict
    /\ fnCall = NoFnCall
    /\ frame = [c \in {"c1"} |-> IdleFrame]
    /\ hist = [c \in {"c1"} |-> NoHist]
    /\ \E results \in SeqsUpTo(SeqsUpTo(MergeRows, MaxRows), Len(SetNames))
                          \cup {JoinExample} \cup ThreeSets,
          merge_keys \in MergeKeyChoices :
          mergeCall = [pc |-> "called", results |-> results,
                       merge_keys |-> merge_keys, out |-> <<>>]

NextMerge == MergeReturn

SpecMerge == InitMerge /\ [][NextMerge]_vars

-----------------------------------------------------------------------------
(* Properties *)

Callers == DOMAIN frame

\* stage numbers are 1..n in list order
NumberedInOrder(pipeline) ==
    \A i \in 1..Len(pipeline) : pipeline[i].stage = i

\* C1: a request whose every attempt fails calls the planner exactly
\* MAX_RETRIES + 1 times and only then raises the terminal failure; the
\* planner is never called more often than that for one request.
RetryCeiling ==
    \A c \in Callers :
        /\ hist[c].planner_calls <= MAX_RETRIES + 1
        /\ hist[c].failed <= MAX_RETRIES + 1
        /\ frame[c].pc = "raised" =>
              /\ hist[c].planner_calls = MAX_RETRIES + 1
              /\ hist[c].failed = MAX_RETRIES + 1
        /\ hist[c].failed = MAX_RETRIES + 1 =>
              frame[c].pc \in {"raised", "idle"}

RetryCeilingReached ==
    \E c \in Callers :
        /\ frame[c].pc = "raised"
        /\ hist[c].planner_calls = MAX_RETRIES + 1
        /\ hist[c].last_error = ErrStore

\* C2: the terminal failure names the number of attempts that were made,
\* which is the number of plan acquisitions of the request.
FailureNamesAttempts ==
    \A c \in Callers :
        frame[c].pc = "raised" =>
            frame[c].ret.attempts = hist[c].planner_calls

\* C3: a completed call with human_readable false ends with a sequence of
\* row records or with the terminal failure carrying the last attempt's
\* error message.
WellFormedOutcome ==
    \A c \in Callers :
        (frame[c].pc \in {"returned", "raised"} /\ ~frame[c].human_readable)
        => \/ /\ frame[c].pc = "returned"
              /\ frame[c].ret.kind = "value"
              /\ ~frame[c].ret.value.isNone
           \/ /\ frame[c].pc = "raised"
              /\ frame[c].ret.kind = "error"
              /\ frame[c].ret.last = hist[c].last_error

\* C4: for a plan whose stages are numbered 1..n, the adapters are invoked
\* in strictly increasing stage order within an attempt, and the adapter of
\* stage k only after stage k-1 has recorded its Stage Result Table entry.
StageOrdering ==
    \A c \in Callers :
        (frame[c].pc # "idle" /\ NumberedInOrder(frame[c].pipeline)) =>
            LET ev == hist[c].events IN
            \A j \in 1..Len(ev) :
                ev[j].e = "invoke" =>
                    /\ \A i \in 1..(j - 1) :
                          ev[i].e = "invoke" => ev[i].stage < ev[j].stage
                    /\ ev[j].stage > 1 =>
                          \E i \in 1..(j - 1) :
                              ev[i] = Event("record", ev[j].stage - 1)

TwoStagesInOrder ==
    \E c \in Callers :
        /\ frame[c].pc = "store"
        /\ frame[c].pipeline = PlanTwo
        /\ hist[c].events = <<Event("invoke", 1), Event("record", 1),
                              Event("invoke", 2), Event("record", 2)>>

\* C5: a lookup of q made after cache_result(q, r), while the age of the
\* entry has not exceeded the time-to-live, returns exactly r.
CacheRoundTrip ==
    (cacheOp.op = "get" /\ cacheOp.q \in DOMAIN stored) =>
        (cacheOp.at - stored[cacheOp.q].at <= cache_ttl =>
            cacheOp.ret = stored[cacheOp.q].r)

RoundTripAtTtl ==
    /\ cacheOp.op = "get"
    /\ cacheOp.q \in DOMAIN stored
    /\ cacheOp.at - stored[cacheOp.q].at = cache_ttl
    /\ cacheOp.ret = PyList(<<RowId1, RowId2>>)

\* C6: expiry is lazy.  An entry leaves the cache only in a lookup of its
\* key that finds its age above the time-to-live; that lookup returns a
\* miss and removes value and timestamp; a lookup of an absent key is a miss
\* and leaves it absent, so only a store brings the key back.
IsGetStep(q) ==
    /\ cacheOp'.n = cacheOp.n + 1
    /\ cacheOp'.op = "get"
    /\ cacheOp'.q = q

LazyExpiryStep ==
    \A q \in Queries :
        LET k == GetCacheKey(q) IN
        /\ (k \in DOMAIN cache /\ k \notin DOMAIN cache') =>
              /\ IsGetStep(q)
              /\ now - timestamps[k] > cache_ttl
        /\ (/\ k \in DOMAIN cache
            /\ now - timestamps[k] > cache_ttl
            /\ IsGetStep(q))
              => /\ cacheOp'.ret = PyNone
                 /\ k \notin DOMAIN cache'
                 /\ k \notin DOMAIN timestamps'
        /\ (/\ k \in DOMAIN cache
            /\ now - timestamps[k] > cache_ttl
            /\ ~IsGetStep(q)
            /\ cacheOp'.q # q)
              => /\ k \in DOMAIN cache'
                 /\ cache'[k] = cache[k]
                 /\ timestamps'[k] = timestamps[k]
        /\ (k \notin DOMAIN cache /\ IsGetStep(q))
              => /\ cacheOp'.ret = PyNone
                 /\ k \notin DOMAIN cache'

LazyExpiry == [][LazyExpiryStep]_vars

EvictedByLookup ==
    /\ cacheOp.op = "get"
    /\ cacheOp.q \in DOMAIN stored
    /\ cacheOp.at - stored[cacheOp.q].at > cache_ttl
    /\ ~stored[cacheOp.q].r.isNone
    /\ cacheOp.ret = PyNone
    /\ GetCacheKey(cacheOp.q) \notin DOMAIN cache
    /\ GetCacheKey(cacheOp.q) \notin DOMAIN timestamps

\* C7: a request for a text whose rows are in the cache, with the age within
\* the time-to-live, is answered without calling the planner or an adapter,
\* whatever the rows are (the empty sequence included).
CacheHitSkipsPipeline ==
    \A c \in Callers :
        hist[c].live_at_call =>
            /\ hist[c].planner_calls = 0
            /\ hist[c].events = <<>>

\* C8: two calls for the same text never are both between their cache
\* lookup and their cache store.
BetweenLookupAndStore(c) ==
    frame[c].pc \in {"parse", "stage", "record", "store"}

CacheSerialized ==
    \A c1, c2 \in Callers :
        (/\ c1 # c2
         /\ frame[c1].natural_language_query
               = frame[c2].natural_language_query)
        => ~(BetweenLookupAndStore(c1) /\ BetweenLookupAndStore(c2))

\* C9: merge_results returns the empty sequence when some non-empty result
\* set's first record lacks a merge key.
FirstRecordLacksKey(results, merge_keys) ==
    \E i \in 1..Len(results) :
        /\ Len(results[i]) > 0
        /\ \E k \in 1..Len(merge_keys) :
              merge_keys[k] \notin DOMAIN results[i][1]

MergePrecondition ==
    (/\ mergeCall.pc = "returned"
     /\ FirstRecordLacksKey(mergeCall.results, mergeCall.merge_keys))
    => mergeCall.out = <<>>

MergeRefused ==
    /\ mergeCall.pc = "returned"
    /\ mergeCall.merge_keys = <<"id">>
    /\ mergeCall.results = <<<<[f \in {"x"} |-> PyStr("a")]>>,
                             <<[f \in {"x"} |-> PyStr("b")]>>>>
    /\ mergeCall.out = <<>>

\* C10: merge_results returns the empty sequence when any record of any
\* result set lacks a merge key.
SomeRecordLacksKey(results, merge_keys) ==
    \E i \in 1..Len(results) :
        \E j \in 1..Len(results[i]) :
            \E k \in 1..Len(merge_keys) :
                merge_keys[k] \notin DOMAIN results[i][j]

MergeFailClosed ==
    (/\ mergeCall.pc = "returned"
     /\ SomeRecordLacksKey(mergeCall.results, mergeCall.merge_keys))
    => mergeCall.out = <<>>

\* C11: for two result sets A and B that pass the precondition, the merge
\* on K returns, in the order of A, one record per record of A whose tuple
\* of stringified K-values occurs in B: the field-wise union of that record
\* with a matching record of B, B's value winning on a shared field.
\* Unmatched records of A are dropped and unmatched records of B never
\* appear.
StrKey(rec, K) ==
    [i \in 1..Len(K) |-> IF K[i] \in DOMAIN rec THEN rec[K[i]].s ELSE "None"]

IsUnionBWins(r, a, b) ==
    /\ DOMAIN r = (DOMAIN a) \cup (DOMAIN b)
    /\ \A f \in DOMAIN r : r[f] = IF f \in DOMAIN b THEN b[f] ELSE a[f]

InnerJoin(A, B, K, out) ==
    LET matched == {i \in 1..Len(A) :
                       \E j \in 1..Len(B) : StrKey(A[i], K) = StrKey(B[j], K)}
    IN /\ Len(out) = Cardinality(matched)
       /\ \A i \in matched :
             LET n == Cardinality({m \in matched : m <= i}) IN
             \E j \in 1..Len(B) :
                 /\ StrKey(B[j], K) = StrKey(A[i], K)
                 /\ IsUnionBWins(out[n], A[i], B[j])

MergeIsInnerJoin ==
    (/\ mergeCall.pc = "returned"
     /\ Len(mergeCall.results) = 2
     /\ ~FirstRecordLacksKey(mergeCall.results, mergeCall.merge_keys))
    => InnerJoin(mergeCall.results[1], mergeCall.results[2],
                 mergeCall.merge_keys, mergeCall.out)

JoinExampleMerged ==
    /\ mergeCall.pc = "returned"
    /\ mergeCall.merge_keys = <<"id">>
    /\ mergeCall.results = JoinExample
    /\ mergeCall.out =
          <<[f \in {"id", "x", "y"} |->
                IF f = "id" THEN PyInt("2")
                ELSE IF f = "x" THEN PyStr("b") ELSE PyStr("c")]>>

\* C12: a relational stage whose membership clause is substituted with an
\* empty value sequence makes no store call and returns zero rows; it does
\* not fail.
EmptyColumnIn(text, stage_results) ==
    \E i \in 1..Len(stage_results) :
        \E j \in 1..Len(stage_results[i].outputs) :
            LET ph == Placeholder(stage_results[i].stage,
                                  stage_results[i].outputs[j].key)
            IN /\ stage_results[i].outputs[j].value = <<>>
               /\ \/ Contains(text, <<"IN (">> \o ph)
                  \/ Contains(text, <<"IN ">> \o ph)

EmptyMembershipStep ==
    \A c \in Callers :
        (/\ frame[c].pc = "stage"
         /\ frame'[c] # frame[c]
         /\ LET stage == frame[c].pipeline[frame[c].idx]
            IN /\ stage.database = "postgresql"
               /\ stage.query.kind = "str"
               /\ EmptyColumnIn(stage.query.text, frame[c].stage_results))
        => /\ frame'[c].pc = "record"
           /\ frame'[c].results = <<>>
           /\ hist'[c].store_calls = hist[c].store_calls
           /\ hist'[c].failed = hist[c].failed

EmptyMembershipNoOp == [][EmptyMembershipStep]_vars

\* C13: in the text query of a later stage, every occurrence of the
\* placeholder of an earlier stage k and a key that stage k's rows carry
\* (stage k having produced at least one row) is replaced by exactly the
\* formatter's rendering, for the later stage's database, of the key's
\* values over stage k's rows in row order; the rest of the text is kept.
KeyNames == {"id", "title"}

ValuesOf(rows, key) == [r \in 1..Len(rows) |-> rows[r][key]]

RECURSIVE ExpectedFrom(_, _, _, _)
ExpectedFrom(text, earlier, database, i) ==
    IF i > Len(text) THEN <<>>
    ELSE LET hits == {h \in (1..Len(earlier)) \X KeyNames :
                        /\ \A r \in 1..Len(earlier[h[1]].rows) :
                              h[2] \in DOMAIN earlier[h[1]].rows[r]
                        /\ MatchAt(text,
                                   <<"{previous_stage",
                                     ToString(earlier[h[1]].stage), ".",
                                     h[2], "}">>, i)}
             hit == CHOOSE h \in hits : TRUE
         IN IF hits = {}
            THEN <<text[i]>> \o ExpectedFrom(text, earlier, database, i + 1)
            ELSE FormatValueForQuery(ValuesOf(earlier[hit[1]].rows, hit[2]),
                                     database)
                    \o ExpectedFrom(text, earlier, database, i + 5)

RunIdempotent ==
    \A c1, c2 \in Callers :
        (/\ c1 # c2
         /\ Len(frame[c1].pipeline) > 0
         /\ frame[c1].pipeline = frame[c2].pipeline)
        => LET t1 == frame[c1].stage_results
               t2 == frame[c2].stage_results
           IN /\ \A n \in 1..Len(t1) : n <= Len(t2) => t1[n] = t2[n]
              /\ (/\ frame[c1].pc \in {"store", "returned"}
                  /\ frame[c2].pc \in {"store", "returned"})
                 => /\ t1 = t2
                    /\ frame[c1].test_final_results
                          = frame[c2].test_final_results

SamePlanRunTwice ==
    /\ frame["c1"].pc = "returned"
    /\ frame["c2"].pc = "store"
    /\ frame["c1"].pipeline = PlanTwo
    /\ frame["c2"].pipeline = PlanTwo
    /\ frame["c1"].retry_count # frame["c2"].retry_count
    /\ Len(frame["c2"].stage_results) = 2
    /\ frame["c2"].stage_results[1].outputs[1].value
          = <<PyInt("1"), PyInt("2")>>
    /\ frame["c2"].test_final_results = PyList(<<RowId1, RowId2>>)

\* C15: the summarization runs only for a request made with human_readable;
\* when it fails, the failure is not counted as a failed attempt and starts
\* no retry: the request returns the fixed fallback text, and the rows the
\* pipeline computed are still the cache entry of the request text.
SummaryStep ==
    \A c \in Callers :
        LET f == frame[c]
            k == GetCacheKey(f.natural_language_query)
        IN /\ (frame'[c].ret.kind = "text" /\ f.ret.kind # "text")
                 => f.human_readable /\ f.pc = "summarize"
           /\ (f.pc = "summarize" /\ frame'[c] # f)
                 => /\ f.human_readable
                    /\ frame'[c].pc = "returned"
                    /\ frame'[c].ret.kind = "text"
                    /\ frame'[c].ret.text \in {SummaryText, FallbackText}
                    /\ frame'[c].retry_count = f.retry_count
                    /\ hist'[c].failed = hist[c].failed
                    /\ hist'[c].planner_calls = hist[c].planner_calls
                    /\ k \in DOMAIN cache'
                    /\ cache'[k] = f.test_final_results

SummaryFailureContained == [][SummaryStep]_vars

FallbackReturned ==
    \E c \in Callers :
        /\ frame[c].pc = "returned"
        /\ frame[c].human_readable
        /\ frame[c].ret = ReturnedText(FallbackText)
        /\ hist[c].failed = 0
        /\ frame[c].test_final_results = PyList(<<RowId1, RowId2>>)
        /\ GetCacheKey(frame[c].natural_language_query) \in DOMAIN cache
        /\ cache[GetCacheKey(frame[c].natural_language_query)]
              = PyList(<<RowId1, RowId2>>)

\* C16: cache keys are not normalized.  For two different request texts q1
\* and q2, cache_result(q1, r) leaves q2's entry as it was: absent if it was
\* absent, with the same value and timestamp if it was present; and a
\* lookup of a text for which nothing was stored is a miss.
IsPutStep(q) ==
    /\ cacheOp'.n = cacheOp.n + 1
    /\ cacheOp'.op = "put"
    /\ cacheOp'.q = q

KeysNotNormalizedStep ==
    /\ \A q1, q2 \in Queries :
          (q1 # q2 /\ IsPutStep(q1)) =>
              LET k2 == GetCacheKey(q2) IN
              /\ GetCacheKey(q1) # k2
              /\ k2 \in DOMAIN cache' <=> k2 \in DOMAIN cache
              /\ k2 \in DOMAIN cache =>
                    /\ cache'[k2] = cache[k2]
                    /\ timestamps'[k2] = timestamps[k2]
    /\ \A q2 \in Queries :
          (IsGetStep(q2) /\ q2 \notin DOMAIN stored) => cacheOp'.ret = PyNone

KeysNotNormalized == [][KeysNotNormalizedStep]_vars

OtherTextStillMisses ==
    /\ cacheOp.op = "get"
    /\ cacheOp.q = "Top movies"
    /\ cacheOp.ret = PyNone
    /\ DOMAIN stored = {"top movies"}
    /\ stored["top movies"].at = now
    /\ stored["top movies"].r = PyList(<<RowId1, RowId2>>)
    /\ GetCacheKey("top movies") \in DOMAIN cache

\* C17: for a document-store stage whose query is a structured filter,
\* when an earlier stage has recorded an output key, the adapter is handed
\* the filter with every placeholder of a table entry replaced by the
\* rendering of that entry; the stage does not fail before the adapter is
\* reached.
StructuredFilterStep ==
    \A c \in Callers :
        LET f == frame[c] IN
        (/\ f.pc = "stage"
         /\ frame'[c] # f
         /\ f.pipeline[f.idx].database = "mongodb"
         /\ f.pipeline[f.idx].query.kind = "dict"
         /\ Len(hist[c].rows) > 0
         /\ \A n \in 1..Len(hist[c].rows) : Len(hist[c].rows[n].rows) >= 1)
        => \/ /\ frame'[c].pc = "record"
              /\ frame'[c].query.kind = "dict"
              /\ frame'[c].query.text
                    = ExpectedFrom(f.pipeline[f.idx].query.text,
                                   hist[c].rows, "mongodb", 1)
           \/ /\ hist'[c].failed = hist[c].failed + 1
              /\ hist'[c].last_error = ErrStore

StructuredFilterSubstituted == [][StructuredFilterStep]_vars

\* C18: a returned row that lacks a declared output key contributes no
\* value for that key; the stage is recorded all the same and the run goes
\* on without a failure.
MissingKeyStep ==
    \A c \in Callers :
        LET f == frame[c] IN
        (/\ f.pc = "record"
         /\ frame'[c] # f
         /\ f.results_bound
         /\ \E r \in 1..Len(f.results) :
               \E k \in 1..Len(f.pipeline[f.idx].output_keys) :
                   f.pipeline[f.idx].output_keys[k] \notin DOMAIN f.results[r])
        => /\ hist'[c].failed = hist[c].failed
           /\ frame'[c].pc \in {"stage", "store"}
           /\ \E n \in 1..Len(frame'[c].stage_results) :
                 /\ frame'[c].stage_results[n].stage = f.pipeline[f.idx].stage
                 /\ \A o \in 1..Len(frame'[c].stage_results[n].outputs) :
                       LET out == frame'[c].stage_results[n].outputs[o]
                           have == {r \in 1..Len(f.results) :
                                       out.key \in DOMAIN f.results[r]}
                       IN Len(out.value) = Cardinality(have)

MissingKeyTolerated == [][MissingKeyStep]_vars

\* C19: the planner call of the first attempt receives empty feedback; the
\* planner call of every retry receives feedback that carries the error
\* message of the attempt just before it, whether that attempt failed in
\* the planner or in a stage.
FeedbackStep ==
    \A c \in Callers :
        hist'[c].planner_calls = hist[c].planner_calls + 1 =>
            /\ hist[c].failed = hist[c].planner_calls
            /\ hist'[c].planner_feedback =
                  IF hist[c].failed = 0
                  THEN <<>>
                  ELSE <<"Previous attempt failed with error: ",
                         hist[c].last_error>>

FeedbackOfPrecedingAttempt == [][FeedbackStep]_vars

ThirdPlanAfterStoreError ==
    \E c \in Callers :
        /\ frame[c].pc = "stage"
        /\ frame[c].retry_count = 2
        /\ hist[c].planner_calls = 3
        /\ hist[c].failed = 2
        /\ hist[c].last_error = ErrStore
        /\ hist[c].planner_feedback =
              <<"Previous attempt failed with error: ", ErrStore>>

\* C20: no stage is retried and no plan is continued after a failure.
\* Within one attempt no stage's adapter is invoked twice; a failing step
\* ends the attempt, leaving the request at the start of a new attempt that
\* holds no plan, or at the terminal failure; and an adapter is only ever
\* invoked for a plan acquired after the last failure.
NoStageRetryStep ==
    \A c \in Callers :
        /\ LET ev == hist'[c].events IN
           \A i, j \in 1..Len(ev) :
               (i < j /\ ev[i].e = "invoke" /\ ev[j].e = "invoke")
               => ev[i].stage # ev[j].stage
        /\ hist'[c].failed = hist[c].failed + 1 =>
              \/ frame'[c].pc = "raised"
              \/ /\ frame'[c].pc = "lookup"
                 /\ frame'[c].retry_count = frame[c].retry_count + 1
                 /\ frame'[c].pipeline = <<>>
                 /\ frame'[c].stage_results = <<>>
                 /\ hist'[c].events = <<>>
        /\ frame'[c].pc \in {"stage", "record"} =>
              hist'[c].planner_calls = hist'[c].failed + 1

NoStageRetry == [][NoStageRetryStep]_vars

FirstStageFailedPlanDropped ==
    \E c \in Callers :
        /\ frame[c].pc = "raised"
        /\ frame[c].pipeline = PlanTwo
        /\ frame[c].idx = 1
        /\ hist[c].last_error = ErrStore
        /\ hist[c].events = <<Event("invoke", 1)>>
        /\ hist[c].store_calls = <<[stage |-> 1, query |-> MatchAll]>>

\* C21: the Stage Result Table is per attempt.  An attempt begins with an
\* empty table, and every entry the table holds was recorded from the rows
\* of a stage executed earlier in the same attempt; nothing recorded by a
\* failed attempt or by an earlier request is in it.
TablePerAttempt ==
    \A c \in Callers :
        LET f == frame[c] IN
        /\ f.pc \in {"lookup", "parse"} => f.stage_results = <<>>
        /\ f.pc # "idle" =>
              \A i \in 1..Len(f.stage_results) :
                  \E n \in 1..Len(hist[c].rows) :
                      /\ hist[c].rows[n].stage = f.stage_results[i].stage
                      /\ \A o \in 1..Len(f.stage_results[i].outputs) :
                            f.stage_results[i].outputs[o].value
                              = ValuesOf(hist[c].rows[n].rows,
                                         f.stage_results[i].outputs[o].key)

RetryStartsFromEmptyTable ==
    \E c \in Callers :
        /\ frame[c].pc = "stage"
        /\ frame[c].retry_count = 1
        /\ hist[c].last_error = ErrDictReplace
        /\ frame[c].pipeline = PlanUnordered
        /\ frame[c].idx = 2
        /\ frame[c].stage_results =
              <<[stage |-> 2,
                 outputs |-> <<[key |-> "id",
                                value |-> <<PyInt("1"), PyInt("2")>>]>>]>>

\* C22: a request that ran a plan and returned rows returned exactly the
\* rows the adapter of the plan's last stage returned for that stage, and
\* that same value is the cache entry of the request text.
FinalRowsOfLastStage ==
    \A c \in Callers :
        LET f == frame[c]
            a == hist[c].adapter_rows
            k == GetCacheKey(f.natural_language_query)
        IN (/\ f.pc = "returned"
            /\ f.ret.kind = "value"
            /\ Len(f.pipeline) > 0)
           => /\ Len(a) > 0
              /\ a[Len(a)].idx = Len(f.pipeline)
              /\ f.ret.value = PyList(a[Len(a)].rows)
              /\ k \in DOMAIN cache
              /\ cache[k] = f.ret.value

\* the same for plans whose stages all name a store the engine has an
\* adapter for
KnownStores(pipeline) ==
    \A i \in 1..Len(pipeline) :
        pipeline[i].database \in {"postgresql", "mongodb", "neo4j"}

FinalRowsOfLastKnownStage ==
    \A c \in Callers :
        KnownStores(frame[c].pipeline) =>
            LET f == frame[c]
                a == hist[c].adapter_rows
                k == GetCacheKey(f.natural_language_query)
            IN (/\ f.pc = "returned"
                /\ f.ret.kind = "value"
                /\ Len(f.pipeline) > 0)
               => /\ Len(a) > 0
                  /\ a[Len(a)].idx = Len(f.pipeline)
                  /\ f.ret.value = PyList(a[Len(a)].rows)
                  /\ k \in DOMAIN cache
                  /\ cache[k] = f.ret.value

\* C23: the substitution of a text query changes only the occurrences of
\* placeholders whose stage and key are in the Stage Result Table; a
\* placeholder of a stage or key that is not in the table stays in the text
\* as written, and the query is handed to the adapter all the same: the
\* stage either returns rows for that text or fails in the store.
RECURSIVE TableSubstFrom(_, _, _, _)
TableSubstFrom(text, table, database, i) ==
    IF i > Len(text) THEN <<>>
    ELSE LET hits == {h \in (1..Len(table)) \X (1..3) :
                        /\ h[2] <= Len(table[h[1]].outputs)
                        /\ MatchAt(text,
                                   <<"{previous_stage",
                                     ToString(table[h[1]].stage), ".",
                                     table[h[1]].outputs[h[2]].key, "}">>, i)}
             hit == CHOOSE h \in hits : TRUE
         IN IF hits = {}
            THEN <<text[i]>> \o TableSubstFrom(text, table, database, i + 1)
            ELSE FormatValueForQuery(table[hit[1]].outputs[hit[2]].value,
                                     database)
                    \o TableSubstFrom(text, table, database, i + 5)

UnresolvedIn(text, table) ==
    \E i \in 1..Len(text) :
        /\ text[i] = "{previous_stage"
        /\ \A n \in 1..Len(table) :
              \/ ToString(table[n].stage) # text[i + 1]
              \/ \A o \in 1..Len(table[n].outputs) :
                    table[n].outputs[o].key # text[i + 3]

UnresolvedKeptStep ==
    \A c \in Callers :
        LET f == frame[c] IN
        (/\ f.pc = "stage"
         /\ frame'[c] # f
         /\ f.pipeline[f.idx].query.kind = "str"
         /\ f.pipeline[f.idx].database \in {"postgresql", "neo4j"}
         /\ UnresolvedIn(f.pipeline[f.idx].query.text, f.stage_results))
        => LET a == hist'[c].adapter_rows IN
           \/ /\ frame'[c].pc = "record"
              /\ Len(a) = Len(hist[c].adapter_rows) + 1
              /\ a[Len(a)].query.text
                    = TableSubstFrom(f.pipeline[f.idx].query.text,
                                     f.stage_results,
                                     f.pipeline[f.idx].database, 1)
              /\ UnresolvedIn(a[Len(a)].query.text, f.stage_results)
           \/ /\ hist'[c].failed = hist[c].failed + 1
              /\ hist'[c].last_error = ErrStore

UnresolvedKept == [][UnresolvedKeptStep]_vars

UnresolvedSentToStore ==
    \E c \in Callers :
        /\ frame[c].pc = "record"
        /\ frame[c].pipeline = PlanUnresolved
        /\ frame[c].idx = 2
        /\ Len(hist[c].store_calls) = 2
        /\ hist[c].store_calls[2].query.text =
              <<"MATCH (x:Movie) WHERE x.id ", "IN ", "[", "1", ", ", "2",
                "]", " AND x.title ", "IN ", "{previous_stage", "1", ".",
                "title", "}", " AND x.sequel ", "IN ", "{previous_stage",
                "3", ".", "id", "}", " RETURN x.id AS id">>

\* C24: the substituted text does not depend on the order in which the
\* (stage, key) entries of the table are replaced, also when a recorded
\* string spells a placeholder of another entry of the table.
OrderIndependent ==
    (fnCall.pc = "returned" /\ fnCall.fn = "substitute")
    => fnCall.out = fnCall.out_reversed

\* the same for tables none of whose values spells a placeholder
SpellsPlaceholder(v) == Tokens(v.s) # <<v.s>>

OrderIndependentOnPlainValues ==
    (/\ fnCall.pc = "returned"
     /\ fnCall.fn = "substitute"
     /\ \A i \in 1..Len(fnCall.stage_results) :
           \A o \in 1..Len(fnCall.stage_results[i].outputs) :
               \A r \in 1..Len(fnCall.stage_results[i].outputs[o].value) :
                   ~SpellsPlaceholder(
                        fnCall.stage_results[i].outputs[o].value[r]))
    => fnCall.out = fnCall.out_reversed

\* C25: format_value_for_query renders a scalar integer or floating-point
\* number as the bare numeral and a scalar of any other type (string,
\* boolean, null) as a quoted literal, for every database.
ScalarsBareOrQuoted ==
    (/\ fnCall.pc = "returned"
     /\ fnCall.fn = "format_value_for_query"
     /\ ~fnCall.isList
     /\ fnCall.scalar.t \in {"int", "float", "str", "bool", "NoneType"})
    => fnCall.out = IF fnCall.scalar.t \in {"int", "float"}
                    THEN <<fnCall.scalar.s>>
                    ELSE <<"'", fnCall.scalar.s, "'">>

\* C26: format_value_for_query renders a sequence, for the graph store, as
\* "[" followed by its rendered elements in order separated by ", " and
\* "]", and for the relational store as the same without the brackets; the
\* empty sequence renders as "[]" and as the empty text.
RECURSIVE ListingFrom(_, _)
ListingFrom(list, i) ==
    IF i > Len(list) THEN <<>>
    ELSE (IF i > 1 THEN <<", ">> ELSE <<>>)
            \o FormatElement(list[i]) \o ListingFrom(list, i + 1)

SequencesListed ==
    (/\ fnCall.pc = "returned"
     /\ fnCall.fn = "format_value_for_query"
     /\ fnCall.isList
     /\ fnCall.database_type \in {"postgresql", "neo4j"})
    => /\ fnCall.out = IF fnCall.database_type = "neo4j"
                       THEN <<"[">> \o ListingFrom(fnCall.list, 1) \o <<"]">>
                       ELSE ListingFrom(fnCall.list, 1)
       /\ fnCall.list = <<>> =>
             fnCall.out = IF fnCall.database_type = "neo4j"
                          THEN <<"[", "]">> ELSE <<>>

GraphListRendered ==
    /\ fnCall.pc = "returned"
    /\ fnCall.fn = "format_value_for_query"
    /\ fnCall.isList
    /\ fnCall.database_type = "neo4j"
    /\ fnCall.list = <<PyInt("7"), PyStr("Up")>>
    /\ fnCall.out = <<"[", "7", ", ", "'", "Up", "'", "]">>

\* C27: the records merge_results returns appear in the relative order of
\* the records of the first result set they derive from, and there are
\* never more of them than the first result set has, for one, two or three
\* merged sets.
RECURSIVE DerivesInOrder(_, _, _, _, _)
DerivesInOrder(out, first, K, n, i) ==
    IF n > Len(out) THEN TRUE
    ELSE IF i > Len(first) THEN FALSE
    ELSE IF /\ StrKey(out[n], K) = StrKey(first[i], K)
            /\ DOMAIN first[i] \subseteq DOMAIN out[n]
         THEN DerivesInOrder(out, first, K, n + 1, i + 1)
         ELSE DerivesInOrder(out, first, K, n, i + 1)

MergeKeepsOrder ==
    (mergeCall.pc = "returned" /\ Len(mergeCall.results) > 0)
    => /\ Len(mergeCall.out) <= Len(mergeCall.results[1])
       /\ DerivesInOrder(mergeCall.out, mergeCall.results[1],
                         mergeCall.merge_keys, 1, 1)

MergeRow(id, x) ==
    [f \in {"id", "x"} |-> IF f = "id" THEN PyInt(id) ELSE PyStr(x)]

ThreeSetsMergedInOrder ==
    /\ mergeCall.pc = "returned"
    /\ mergeCall.merge_keys = <<"id">>
    /\ mergeCall.results =
          <<<<MergeRow("2", "b"), MergeRow("1", "a")>>,
            <<MergeRow("1", "a"), MergeRow("2", "b")>>,
            <<MergeRow("1", "b"), MergeRow("2", "a")>>>>
    /\ mergeCall.out = <<MergeRow("2", "a"), MergeRow("1", "b")>>

\* C28: cache_result is unconditional.  Whether the key was absent, live or
\* expired, cache_result(q, r) leaves q's entry holding r with the current
\* time as its timestamp and leaves every other key's entry as it was; a
\* lookup made within the time-to-live of the latest store returns what
\* that store was given.
UnconditionalStoreStep ==
    /\ \A q \in Queries :
          IsPutStep(q) =>
              LET k == GetCacheKey(q) IN
              /\ k \in DOMAIN cache'
              /\ cache'[k] = stored'[q].r
              /\ timestamps'[k] = now
              /\ \A q2 \in Queries \ {q} :
                    LET k2 == GetCacheKey(q2) IN
                    /\ k2 \in DOMAIN cache' <=> k2 \in DOMAIN cache
                    /\ k2 \in DOMAIN cache =>
                          /\ cache'[k2] = cache[k2]
                          /\ timestamps'[k2] = timestamps[k2]
    /\ \A q \in Queries :
          (/\ IsGetStep(q)
           /\ q \in DOMAIN stored
           /\ now - stored[q].at <= cache_ttl)
          => cacheOp'.ret = stored[q].r

UnconditionalStore == [][UnconditionalStoreStep]_vars

RestoredEntryServedAnew ==
    /\ cacheOp.op = "get"
    /\ cacheOp.q \in DOMAIN stored
    /\ stored[cacheOp.q].puts = 2
    /\ stored[cacheOp.q].at = 2 * TickStep
    /\ cacheOp.at = 3 * TickStep
    /\ cacheOp.at > cache_ttl
    /\ cacheOp.ret = PyList(<<RowId1, RowId2>>)

\* C29: every connection an adapter opens is released when the adapter call
\* exits, by success or by failure: between two stages and between two
\* attempts the request holds no open store connection.
NoOpenConnections ==
    \A c \in Callers :
        frame[c].pc # "idle" => hist[c].unreleased = 0

\* C30: the rows recorded for a stage are the rows the adapter of that
\* stage's own database returned for that stage's own substituted query; a
\* stage of a database without an adapter records nothing.
RecordedRowsFromOwnAdapter ==
    \A c \in Callers :
        frame[c].pc # "idle" =>
            \A n \in 1..Len(hist[c].rows) :
                \E a \in 1..Len(hist[c].adapter_rows) :
                    LET ret == hist[c].adapter_rows[a] IN
                    /\ ret.idx = n
                    /\ ret.database = frame[c].pipeline[n].database
                    /\ ret.database \in {"postgresql", "mongodb", "neo4j"}
                    /\ ret.rows = hist[c].rows[n].rows

\* C31: a failed attempt leaves the cache unchanged. A step of a request
\* changes the cache only by evicting the expired entry of its own text at the
\* cache check, or by storing at line 534 after the loop has run and recorded
\* every stage of the plan; and at a terminal failure the cache is what it was
\* when the request was made, but for such an evicted entry.
CacheWrittenAfterAllStagesStep ==
    \A c \in DOMAIN frame :
        (frame[c] # frame'[c] /\ <<cache, timestamps>> # <<cache, timestamps>>')
        => LET f == frame[c]
               k == GetCacheKey(f.natural_language_query)
           IN \/ /\ f.pc = "lookup"
                 /\ k \in DOMAIN cache
                 /\ now - timestamps[k] > cache_ttl
                 /\ cache' = DictDel(cache, k)
                 /\ timestamps' = DictDel(timestamps, k)
              \/ /\ f.pc = "store"
                 /\ f.idx = Len(f.pipeline) + 1
                 /\ Len(hist[c].rows) = Len(f.pipeline)
                 /\ \A n \in 1..Len(f.pipeline) :
                        hist[c].rows[n].stage = f.pipeline[n].stage
                 /\ \A j \in DOMAIN cache \ {k} :
                        j \in DOMAIN cache' /\ cache'[j] = cache[j]
UnchangedButEvicted(c) ==
    LET h == hist[c]
        k == GetCacheKey(frame[c].natural_language_query)
    IN /\ DOMAIN cache = DOMAIN timestamps
       /\ DOMAIN cache \subseteq DOMAIN h.cache_at_call
       /\ \A j \in DOMAIN cache :
              /\ cache[j] = h.cache_at_call[j]
              /\ timestamps[j] = h.timestamps_at_call[j]
       /\ \A j \in DOMAIN h.cache_at_call \ DOMAIN cache :
              /\ j = k
              /\ now - h.timestamps_at_call[j] > cache_ttl
FailureLeavesCache ==
    /\ [][CacheWrittenAfterAllStagesStep]_vars
    /\ [](\A c \in Callers :
             frame[c].pc = "raised" => UnchangedButEvicted(c))

\* a stage was run and recorded in the attempt that failed for good, and the
\* cache still holds the (empty) rows it held when the request was made
FailedWithCacheAsBefore ==
    LET f == frame["c1"]
        k == GetCacheKey(f.natural_language_query)
    IN /\ f.pc = "raised"
       /\ Len(hist["c1"].rows) = 1
       /\ k \in DOMAIN cache
       /\ cache[k] = PyList(<<>>)
       /\ cache = hist["c1"].cache_at_call
       /\ timestamps = hist["c1"].timestamps_at_call

\* C32: a request made with human_readable true that succeeds returns text,
\* the summary or the fallback message, whether its rows came from a run of
\* the pipeline or from the cache.
HumanReadableReturnsText ==
    \A c \in Callers :
        (frame[c].pc = "returned" /\ frame[c].human_readable)
        => /\ frame[c].ret.kind = "text"
           /\ frame[c].ret.text \in {SummaryText, FallbackText}

\* the same for the requests that ran a pipeline to its end
HumanReadableTextAfterRun ==
    \A c \in Callers :
        (/\ frame[c].pc = "returned"
         /\ frame[c].human_readable
         /\ hist[c].planner_calls > 0)
        => /\ frame[c].ret.kind = "text"
           /\ frame[c].ret.text \in {SummaryText, FallbackText}

\* C33: termination. If every planner call and every adapter call returns,
\* every process_query call completes with a result or a terminal failure;
\* it acquires at most MAX_RETRIES + 1 plans, and every retry raises the
\* retry counter by one.
RetryCountsUpStep ==
    \A c \in DOMAIN frame :
        (frame[c].pc \notin {"idle", "lookup"} /\ frame'[c].pc = "lookup")
        => /\ frame'[c].retry_count = frame[c].retry_count + 1
           /\ frame'[c].retry_count <= MAX_RETRIES
InProgress(c) == frame[c].pc \notin {"idle", "returned", "raised"}
Completed(c) ==
    \/ frame[c].pc = "returned" /\ frame[c].ret.kind \in {"value", "text"}
    \/ frame[c].pc = "raised" /\ frame[c].ret.kind = "error"
EveryCallCompletes ==
    /\ \A c \in {"c1"} : InProgress(c) ~> Completed(c)
    /\ [](\A c \in Callers : hist[c].planner_calls <= MAX_RETRIES + 1)
    /\ [][RetryCountsUpStep]_vars

\* a request that succeeded on its last permitted attempt
SucceededOnLastAttempt ==
    /\ frame["c1"].pc = "returned"
    /\ frame["c1"].retry_count = MAX_RETRIES
    /\ hist["c1"].planner_calls = MAX_RETRIES + 1
    /\ hist["c1"].failed = MAX_RETRIES

\* C34: when several records of the later result set B carry the same tuple
\* of merge-key values, every record of the accumulator A with that tuple is
\* joined with one of them only, the last in B's order; the result never has
\* more records than A.
LastWinsJoin(A, B, K, out) ==
    LET hits(i) == {j \in 1..Len(B) : StrKey(B[j], K) = StrKey(A[i], K)}
        matched == {i \in 1..Len(A) : hits(i) # {}}
    IN /\ Len(out) = Cardinality(matched)
       /\ Len(out) <= Len(A)
       /\ \A i \in matched :
             LET n == Cardinality({m \in matched : m <= i})
                 last == CHOOSE j \in hits(i) : \A h \in hits(i) : h <= j
             IN IsUnionBWins(out[n], A[i], B[last])

DuplicateKeysLastWins ==
    (/\ mergeCall.pc = "returned"
     /\ Len(mergeCall.results) = 2
     /\ ~FirstRecordLacksKey(mergeCall.results, mergeCall.merge_keys))
    => LastWinsJoin(mergeCall.results[1], mergeCall.results[2],
                    mergeCall.merge_keys, mergeCall.out)

\* two accumulator records with id 1, and a later set with two records of
\* id 1: two records come out, both joined with the second of them
DuplicateKeyJoined ==
    /\ mergeCall.pc = "returned"
    /\ mergeCall.merge_keys = <<"id">>
    /\ mergeCall.results =
          <<<<MergeRow("1", "a"), MergeRow("1", "a")>>,
            <<MergeRow("1", "a"), MergeRow("1", "b")>>>>
    /\ mergeCall.out = <<MergeRow("1", "b"), MergeRow("1", "b")>>

\* C35: after any sequence of get_cached_result and cache_result calls made
\* one at a time, the keys holding a value are the keys holding a timestamp.
ValueKeysAreTimestampKeys == DOMAIN cache = DOMAIN timestamps

\* a lookup has just evicted the expired entry of its text while the entry
\* of another text stays, value and timestamp
EvictedOneKeptOther ==
    /\ cacheOp.op = "get"
    /\ cacheOp.q \in DOMAIN stored
    /\ cacheOp.ret = PyNone
    /\ cacheOp.at - stored[cacheOp.q].at > cache_ttl
    /\ GetCacheKey(cacheOp.q) \notin DOMAIN cache
    /\ GetCacheKey(cacheOp.q) \notin DOMAIN timestamps
    /\ \E q \in Queries \ {cacheOp.q} :
          /\ GetCacheKey(q) \in DOMAIN cache
          /\ GetCacheKey(q) \in DOMAIN timestamps

=============================================================================
